---------------------------- MODULE Spec2Model ----------------------------
(***************************************************************************)
(* A model of PhotoGalleryLib (src/PhotoGalleryLib.ts): the size-class     *)
(* classifier and watcher (onSizeClassChange), the grid renderer           *)
(* (generateGrid), the click handlers of the grid (addImageClickHandlers)  *)
(* and the presentation modal (createModal .. setModalImgSrc).             *)
(*                                                                         *)
(* Six specifications share the module:                                    *)
(*   SpecClassify  the pure classifier applied to every width 0..MaxWidth  *)
(*   SpecWatcher   window.innerWidth, window.onresize and the callbacks    *)
(*   SpecGrid      generateGrid and the table elements it creates          *)
(*   SpecClicks    the grid in the document, its click listeners, clicks   *)
(*   SpecModal     the modal operations of the library, in any order       *)
(*   SpecGallery   the page: the composition root and the                  *)
(*                 PresentationController of the specification, which are  *)
(*                 not part of the library, calling the library            *)
(***************************************************************************)
EXTENDS Integers, Sequences, FiniteSets, TLC

VARIABLES
    width,          \* SpecClassify: the argument handed to getViewportSizeName
    sizeName,       \* SpecClassify: what getViewportSizeName returned for it
    innerWidth,     \* window.innerWidth
    resizePending,  \* a resize event is queued and not yet dispatched
    onresize,       \* window.onresize: the installed closure (callback, currentViewportSize)
    seen,           \* the widths read by the installed closure, registration first
    notes,          \* the size classes the installed closure passed to its callback
    registered,     \* the callbacks registered successfully, the most recent last
    lastOp,         \* the last operation on the watcher: its argument, calls made, error
    tables,         \* the table elements created so far, by object identity 1..Len
    gridCalls,      \* the generateGrid calls so far: arguments, object returned, error
    modals,         \* the #presentationModal elements appended to the body, in document order
    modalOp,        \* the last operation on the modal: its argument and error
    attached,       \* the table elements in the document, in document order
    given,          \* the callbacks given to addImageClickHandlers since the grid was attached
    clickOp,        \* the last operation on the grid in the document, and the calls a click made
    fetch,          \* the image-list request: "pending", "resolved" or "failed"
    imageSet,       \* the list of URLs the request resolved to, <<>> before
    viewport,       \* the size class of the viewport
    presentation,   \* PresentationState: isOpen and currentIndex (0..7)
    rerendered,     \* the grid shown has replaced an earlier one
    galleryOp       \* the last event the page handled, and whether the overlay was open before

classifyVars == <<width, sizeName>>
watcherVars  == <<innerWidth, resizePending, onresize, seen, notes, registered, lastOp>>
gridVars     == <<tables, gridCalls>>
modalVars    == <<modals, modalOp>>
clickVars    == <<attached, given, clickOp>>
galleryVars  == <<fetch, imageSet, viewport, presentation, rerendered, galleryOp>>
vars         == <<width, sizeName, innerWidth, resizePending, onresize, seen, notes,
                  registered, lastOp, tables, gridCalls, modals, modalOp,
                  attached, given, clickOp,
                  fetch, imageSet, viewport, presentation, rerendered, galleryOp>>

---------------------------------------------------------------------------
(* Bounds of the model *)

MaxWidth == 1000
MaxSeen == 5
MaxGridCalls == 3
MaxModals == 2
MaxHandlers == 3

(* Program constants *)

SMALL_MAX == 600
MEDIUM_MAX == 800
GRID_SIZE == 8

---------------------------------------------------------------------------
(* The size classifier, PhotoGalleryLib.ts 17-25 *)

SizeClasses == {"small", "medium", "large"}

getViewportSizeName_strict(w) ==
    IF w < SMALL_MAX THEN "small"
    ELSE IF w < MEDIUM_MAX THEN "medium"
    ELSE "large"

getViewportSizeName(w) ==
    IF w <= SMALL_MAX THEN "small"
    ELSE IF w <= MEDIUM_MAX THEN "medium"
    ELSE "large"

---------------------------------------------------------------------------
(* SpecClassify: the classifier applied to each width of 0..MaxWidth *)

ClassifyWidths == 0..MaxWidth

InitClassify ==
    /\ width \in ClassifyWidths
    /\ sizeName = "none"

Classify ==
    /\ sizeName = "none"
    /\ sizeName' = getViewportSizeName(width)
    /\ UNCHANGED width

NextWidth ==
    /\ sizeName # "none"
    /\ width' \in ClassifyWidths
    /\ sizeName' = "none"

---------------------------------------------------------------------------
(* The watcher, PhotoGalleryLib.ts 12-37 *)

Callbacks == {"f", "g"}
NonCallable == {"notAFunction"}
Widths == {500, 550, 700, 750, 900}

Null == [callback |-> "null", currentViewportSize |-> "none"]
NoOp == [op |-> "none", arg |-> "none", invoked |-> <<>>, error |-> "none"]

Last(s) == s[Len(s)]

\* typeof callback === 'function', line 13
IsFunction(callback) == callback \in Callbacks

\* lines 27-28: the call made at registration
InitialNotify_deferred(callback, size) == <<>>

InitialNotify(callback, size) == <<[callback |-> callback, size |-> size]>>

\* line 30: the assignment to window.onresize replaces what was there
InstallHandler_keepFirst(old, new) == IF old = Null THEN new ELSE old

InstallHandler(old, new) == new

\* lines 30-36: the closure run on a resize event; the closure after the
\* event and the calls it made
ResizeHandler_always(handler, w) ==
    LET newViewportSize == getViewportSizeName(w) IN
    [handler |-> [handler EXCEPT !.currentViewportSize = newViewportSize],
     invoked |-> <<[callback |-> handler.callback, size |-> newViewportSize]>>]

ResizeHandler_noUpdate(handler, w) ==
    LET newViewportSize == getViewportSizeName(w) IN
    IF newViewportSize # handler.currentViewportSize
    THEN [handler |-> handler,
          invoked |-> <<[callback |-> handler.callback, size |-> newViewportSize]>>]
    ELSE [handler |-> handler, invoked |-> <<>>]

ResizeHandler(handler, w) ==
    LET newViewportSize == getViewportSizeName(w) IN
    IF newViewportSize # handler.currentViewportSize
    THEN [handler |-> [handler EXCEPT !.currentViewportSize = newViewportSize],
          invoked |-> <<[callback |-> handler.callback, size |-> newViewportSize]>>]
    ELSE [handler |-> handler, invoked |-> <<>>]

\* The registration order kept for the claims: callback moves to the end
Register(order, callback) ==
    SelectSeq(order, LAMBDA c : c # callback) \o <<callback>>

InitWatcher ==
    /\ innerWidth \in Widths
    /\ resizePending = FALSE
    /\ onresize = Null
    /\ seen = <<>>
    /\ notes = <<>>
    /\ registered = <<>>
    /\ lastOp = NoOp

\* The registration with the type check made after the listener is installed
onSizeClassChange_lateCheck(callback) ==
    LET currentViewportSize == getViewportSizeName(innerWidth) IN
    /\ onresize' = [callback |-> callback, currentViewportSize |-> currentViewportSize]
    /\ seen' = <<innerWidth>>
    /\ notes' = IF IsFunction(callback) THEN <<currentViewportSize>> ELSE <<>>
    /\ registered' = IF IsFunction(callback) THEN Register(registered, callback) ELSE registered
    /\ lastOp' = [op |-> "onSizeClassChange", arg |-> callback,
                  invoked |-> IF IsFunction(callback)
                              THEN InitialNotify(callback, currentViewportSize)
                              ELSE <<>>,
                  error |-> IF IsFunction(callback) THEN "none" ELSE "TypeError"]
    /\ UNCHANGED <<innerWidth, resizePending>>

onSizeClassChange(callback) ==
    IF ~IsFunction(callback)
    THEN /\ lastOp' = [op |-> "onSizeClassChange", arg |-> callback,
                       invoked |-> <<>>, error |-> "TypeError"]
         /\ UNCHANGED <<innerWidth, resizePending, onresize, seen, notes, registered>>
    ELSE LET currentViewportSize == getViewportSizeName(innerWidth)
             made == InitialNotify(callback, currentViewportSize)
         IN
         /\ onresize' = InstallHandler(onresize,
                [callback |-> callback, currentViewportSize |-> currentViewportSize])
         /\ seen' = <<innerWidth>>
         /\ notes' = [i \in 1..Len(made) |-> made[i].size]
         /\ registered' = Register(registered, callback)
         /\ lastOp' = [op |-> "onSizeClassChange", arg |-> callback,
                       invoked |-> made, error |-> "none"]
         /\ UNCHANGED <<innerWidth, resizePending>>

\* The browser changes the viewport width and queues a resize event
SetInnerWidth(w) ==
    /\ w # innerWidth
    /\ innerWidth' = w
    /\ resizePending' = TRUE
    /\ lastOp' = [op |-> "setInnerWidth", arg |-> "none", invoked |-> <<>>, error |-> "none"]
    /\ UNCHANGED <<onresize, seen, notes, registered>>

\* The browser dispatches the queued resize event to window.onresize
DispatchResize ==
    /\ resizePending
    /\ resizePending' = FALSE
    /\ IF onresize = Null
       THEN /\ lastOp' = [op |-> "resize", arg |-> "none", invoked |-> <<>>, error |-> "none"]
            /\ UNCHANGED <<onresize, seen, notes>>
       ELSE LET r == ResizeHandler(onresize, innerWidth) IN
            /\ Len(seen) < MaxSeen
            /\ onresize' = r.handler
            /\ seen' = Append(seen, innerWidth)
            /\ notes' = notes \o [i \in 1..Len(r.invoked) |-> r.invoked[i].size]
            /\ lastOp' = [op |-> "resize", arg |-> "none", invoked |-> r.invoked,
                          error |-> "none"]
    /\ UNCHANGED <<innerWidth, registered>>

---------------------------------------------------------------------------
(* The grid renderer, PhotoGalleryLib.ts 47-126 *)

\* An <img> element is modelled by its src attribute; a parsed template has none
NoSrc == ""
Undefined == "undefined"

\* The three templates as the HTML parser reads them: the rows (tr) in
\* document order, each the cells (td > img) it holds
VIEWPORT_LARGE_TABLE ==
    << <<NoSrc, NoSrc, NoSrc, NoSrc>>,
       <<NoSrc, NoSrc, NoSrc, NoSrc>> >>

VIEWPORT_MEDIUM_TABLE ==
    << <<NoSrc, NoSrc>>,
       <<NoSrc, NoSrc>>,
       <<NoSrc, NoSrc>>,
       <<NoSrc, NoSrc>> >>

VIEWPORT_SMALL_TABLE ==
    << <<NoSrc>>, <<NoSrc>>, <<NoSrc>>, <<NoSrc>>,
       <<NoSrc>>, <<NoSrc>>, <<NoSrc>>, <<NoSrc>> >>

\* line 48: the length check
LengthOk_atLeast(imageUrls) == Len(imageUrls) >= GRID_SIZE

LengthOk(imageUrls) == Len(imageUrls) = GRID_SIZE

\* lines 115-121: the template chosen for a size
TemplateFor_swapped(size) ==
    IF size = "large" THEN VIEWPORT_MEDIUM_TABLE
    ELSE IF size = "medium" THEN VIEWPORT_LARGE_TABLE
    ELSE VIEWPORT_SMALL_TABLE

TemplateFor(size) ==
    IF size = "large" THEN VIEWPORT_LARGE_TABLE
    ELSE IF size = "medium" THEN VIEWPORT_MEDIUM_TABLE
    ELSE VIEWPORT_SMALL_TABLE

\* line 122, querySelectorAll('img'): the positions <<row, column>> of the
\* img elements of rows r..Len(rows), in document order
RECURSIVE ImgsFrom(_, _)
ImgsFrom(rows, r) ==
    IF r > Len(rows) THEN <<>>
    ELSE [c \in 1..Len(rows[r]) |-> <<r, c>>] \o ImgsFrom(rows, r + 1)

querySelectorAll_img(rows) == ImgsFrom(rows, 1)

\* line 123: imageUrls[i] for the i-th img (counted from 1 here); reading
\* past the end of an array gives undefined
SrcFor_reversed(imageUrls, i) ==
    IF Len(imageUrls) - i + 1 \in 1..Len(imageUrls)
    THEN imageUrls[Len(imageUrls) - i + 1] ELSE Undefined

SrcFor(imageUrls, i) ==
    IF i \in 1..Len(imageUrls) THEN imageUrls[i] ELSE Undefined

\* lines 122-124, forEach: the rows after imgs[i..] got their src
RECURSIVE BindFrom(_, _, _, _)
BindFrom(rows, imgs, imageUrls, i) ==
    IF i > Len(imgs) THEN rows
    ELSE BindFrom([rows EXCEPT ![imgs[i][1]][imgs[i][2]] = SrcFor(imageUrls, i)],
                  imgs, imageUrls, i + 1)

\* line 113, document.createElement('table'): the identity of the new element
createElement_reuse(elements) == IF elements = <<>> THEN 1 ELSE Len(elements)

createElement(elements) == Len(elements) + 1

\* The elements with element e holding value v
Store(elements, e, v) ==
    [i \in 1..(IF e > Len(elements) THEN e ELSE Len(elements)) |->
        IF i = e THEN v ELSE elements[i]]

Urls == {"a", "b", "c", "d", "e", "f", "g", "h", "i"}
ImageLists ==
    { <<"a", "b", "c", "d", "e", "f", "g", "h">>,
      <<"h", "g", "f", "e", "d", "c", "b", "a">>,
      <<"a", "a", "b", "b", "c", "c", "d", "d">>,
      <<"a", "b", "c", "d", "e", "f", "g">>,
      <<"a", "b", "c", "d", "e", "f", "g", "h", "i">> }

generateGrid(imageUrls, size) ==
    /\ Len(gridCalls) < MaxGridCalls
    /\ IF ~LengthOk(imageUrls)
       THEN /\ gridCalls' = Append(gridCalls, [imageUrls |-> imageUrls, size |-> size,
                                               ret |-> 0, error |-> "RangeError"])
            /\ UNCHANGED tables
       ELSE LET imagesGrid == createElement(tables)
                parsed == TemplateFor(size)
                bound == BindFrom(parsed, querySelectorAll_img(parsed), imageUrls, 1)
            IN
            /\ tables' = Store(tables, imagesGrid, [id |-> "imagesGrid", rows |-> bound])
            /\ gridCalls' = Append(gridCalls, [imageUrls |-> imageUrls, size |-> size,
                                               ret |-> imagesGrid, error |-> "none"])

---------------------------------------------------------------------------
(* The presentation modal, PhotoGalleryLib.ts 131-220 *)

\* lines 132-150: the element createModal builds: hidden, its image without
\* src, its three buttons without listeners
NewModal_visible ==
    [display |-> "block", src |-> NoSrc,
     closeButton |-> <<>>, previousButton |-> <<>>, nextButton |-> <<>>]

NewModal ==
    [display |-> "none", src |-> NoSrc,
     closeButton |-> <<>>, previousButton |-> <<>>, nextButton |-> <<>>]

\* addEventListener: a listener already registered on the target is not added again
addEventListener(listeners, cb) ==
    IF \E k \in 1..Len(listeners) : listeners[k] = cb
    THEN listeners ELSE Append(listeners, cb)

\* lines 195-197: the three registrations, on the buttons querySelector finds
initModal_swapped(modal, closeBtnCb, previousBtnCb, nextBtnCb) ==
    [modal EXCEPT !.closeButton = addEventListener(@, closeBtnCb),
                  !.previousButton = addEventListener(@, nextBtnCb),
                  !.nextButton = addEventListener(@, previousBtnCb)]

initModal(modal, closeBtnCb, previousBtnCb, nextBtnCb) ==
    [modal EXCEPT !.closeButton = addEventListener(@, closeBtnCb),
                  !.previousButton = addEventListener(@, previousBtnCb),
                  !.nextButton = addEventListener(@, nextBtnCb)]

\* line 204
closePresentationModal_toggle(modal) ==
    [modal EXCEPT !.display = IF @ = "none" THEN "block" ELSE "none"]

closePresentationModal_clearsSrc(modal) ==
    [modal EXCEPT !.display = "none", !.src = NoSrc]

closePresentationModal(modal) == [modal EXCEPT !.display = "none"]

\* line 211
openPresentationModal(modal) == [modal EXCEPT !.display = "block"]

\* line 219
setModalImgSrc_ignored(modal, src) == modal

setModalImgSrc(modal, src) == [modal EXCEPT !.src = src]

\* document.querySelector finds the first element with the id, or null;
\* an operation on null throws TypeError
NoModalOp == [op |-> "none", arg |-> "none", error |-> "none"]
ModalInputs == {"closeBtnCb", "previousBtnCb"}
ModalSrcs == {"a", "b"}

InitModal ==
    /\ modals = <<>>
    /\ modalOp = NoModalOp

\* The outcome of an operation that looks the modal up: update is the first
\* modal after it
OnFirstModal(op, arg, update) ==
    IF modals = <<>>
    THEN /\ modalOp' = [op |-> op, arg |-> arg, error |-> "TypeError"]
         /\ UNCHANGED modals
    ELSE /\ modalOp' = [op |-> op, arg |-> arg, error |-> "none"]
         /\ modals' = [modals EXCEPT ![1] = update]

CreateModal ==
    /\ Len(modals) < MaxModals
    /\ modals' = Append(modals, NewModal)
    /\ modalOp' = [op |-> "createModal", arg |-> "none", error |-> "none"]

CallInitModal(closeBtnCb, previousBtnCb, nextBtnCb) ==
    OnFirstModal("initModal", "none",
                 initModal(modals[1], closeBtnCb, previousBtnCb, nextBtnCb))

CallClosePresentationModal ==
    OnFirstModal("closePresentationModal", "none", closePresentationModal(modals[1]))

CallOpenPresentationModal ==
    OnFirstModal("openPresentationModal", "none", openPresentationModal(modals[1]))

CallSetModalImgSrc(src) ==
    OnFirstModal("setModalImgSrc", src, setModalImgSrc(modals[1], src))

---------------------------------------------------------------------------
(* The click handlers of the grid, PhotoGalleryLib.ts 226-233 *)

\* lines 113-125: the table generateGrid returns for 8 URLs
imagesGridFor(imageUrls, size) ==
    LET parsed == TemplateFor(size) IN
    [id |-> "imagesGrid",
     rows |-> BindFrom(parsed, querySelectorAll_img(parsed), imageUrls, 1)]

\* A table placed in the document: its imgs, in document order, have no
\* click listeners yet
InDocument(table) ==
    [id |-> table.id, rows |-> table.rows,
     listeners |-> [k \in 1..Len(querySelectorAll_img(table.rows)) |-> <<>>]]

\* line 227, querySelectorAll('#imagesGrid img'): the imgs <<table, img>> of
\* the tables t..Len(doc) that have the id, in document order
RECURSIVE GridImgsFrom(_, _)
GridImgsFrom(doc, t) ==
    IF t > Len(doc) THEN <<>>
    ELSE (IF doc[t].id = "imagesGrid"
          THEN [k \in 1..Len(doc[t].listeners) |-> <<t, k>>]
          ELSE <<>>) \o GridImgsFrom(doc, t + 1)

\* The selector written with another id than the one generateGrid gives
querySelectorAll_gridImgs_otherId(doc) == <<>>

querySelectorAll_gridImgs(doc) == GridImgsFrom(doc, 1)

\* lines 227-228: forEach counts from 0; n is the place in the NodeList, from 1
forEachIndex_fromOne(n) == n

forEachIndex(n) == n - 1

\* line 229: each call registers a new arrow function, which addEventListener
\* never takes for one it already has
addClickListener_replace(listeners, listener) == <<listener>>

addClickListener(listeners, listener) == Append(listeners, listener)

\* lines 227-232: the document after imgs[n..] got their listener
RECURSIVE AddHandlersFrom(_, _, _, _)
AddHandlersFrom(doc, imgs, callback, n) ==
    IF n > Len(imgs) THEN doc
    ELSE AddHandlersFrom(
           [doc EXCEPT ![imgs[n][1]].listeners[imgs[n][2]] =
               addClickListener(@, [callback |-> callback, index |-> forEachIndex(n)])],
           imgs, callback, n + 1)

addImageClickHandlers(doc, callback) ==
    AddHandlersFrom(doc, querySelectorAll_gridImgs(doc), callback, 1)

ClickCallbacks == {"openImage", "logIndex"}
NoClickOp == [op |-> "none", cell |-> -1, invoked |-> <<>>]

InitClicks ==
    /\ attached = <<>>
    /\ given = <<>>
    /\ clickOp = NoClickOp

\* The host puts a newly generated grid in its container, in place of the
\* one shown before
AttachGrid(imageUrls, size) ==
    /\ LengthOk(imageUrls)
    /\ attached' = <<InDocument(imagesGridFor(imageUrls, size))>>
    /\ given' = <<>>
    /\ clickOp' = [op |-> "attach", cell |-> -1, invoked |-> <<>>]

CallAddImageClickHandlers(callback) ==
    /\ Len(given) < MaxHandlers
    /\ attached' = addImageClickHandlers(attached, callback)
    /\ given' = IF attached = <<>> THEN given ELSE Append(given, callback)
    /\ clickOp' = [op |-> "addImageClickHandlers", cell |-> -1, invoked |-> <<>>]

\* The user clicks the n-th img, in row-major order from 1, of the grid shown:
\* its listeners run in the order they were added
ClickImage(n) ==
    /\ attached # <<>>
    /\ n \in 1..Len(attached[1].listeners)
    /\ clickOp' = [op |-> "click", cell |-> n - 1, invoked |-> attached[1].listeners[n]]
    /\ UNCHANGED <<attached, given>>

---------------------------------------------------------------------------
(* The page: the composition root and the PresentationController of the  *)
(* specification (sections 4.3, 4.4 and 5), which call the library.  They *)
(* are not part of PhotoGalleryLib.ts and are modelled from the           *)
(* specification.                                                         *)

NoGalleryOp == [op |-> "none", error |-> "none", wasOpen |-> FALSE]
Buttons == {"closeButton", "previousButton", "nextButton"}

InitGallery ==
    /\ fetch = "pending"
    /\ imageSet = <<>>
    /\ viewport \in SizeClasses
    /\ presentation = [isOpen |-> FALSE, currentIndex |-> 0]
    /\ rerendered = FALSE
    /\ galleryOp = NoGalleryOp

\* imageUrls[i] for the index i (0..7) of the controller
UrlAt(i) == imageSet[i + 1]

\* 4.3, cell clicked with index i: Open(i), display imageUrls[i], show the overlay
OnImageClicked(c, i) ==
    [p |-> [isOpen |-> TRUE, currentIndex |-> i],
     m |-> openPresentationModal(setModalImgSrc(c.m, UrlAt(i)))]

\* 4.3, close: Closed, hide the overlay, currentIndex retained
OnClose(c) ==
    [p |-> [c.p EXCEPT !.isOpen = FALSE],
     m |-> closePresentationModal(c.m)]

\* 4.3, previous and next: Open((i - 1 + 8) mod 8) and Open((i + 1) mod 8);
\* a no-op while Closed
PreviousIndex(i) == (i - 1 + GRID_SIZE) % GRID_SIZE

NextIndex(i) == (i + 1) % GRID_SIZE

StepTo(c, i) ==
    IF c.p.isOpen
    THEN [p |-> [c.p EXCEPT !.currentIndex = i], m |-> setModalImgSrc(c.m, UrlAt(i))]
    ELSE c

OnPrevious(c) == StepTo(c, PreviousIndex(c.p.currentIndex))

OnNext(c) == StepTo(c, NextIndex(c.p.currentIndex))

\* The callbacks the root hands to the library, by name
RunCallback(c, call) ==
    CASE call.callback = "openImage" -> OnImageClicked(c, call.index)
      [] call.callback = "closeBtnCb" -> OnClose(c)
      [] call.callback = "previousBtnCb" -> OnPrevious(c)
      [] call.callback = "nextBtnCb" -> OnNext(c)
      [] OTHER -> c

RECURSIVE RunCallbacks(_, _, _)
RunCallbacks(c, calls, k) ==
    IF k > Len(calls) THEN c
    ELSE RunCallbacks(RunCallback(c, calls[k]), calls, k + 1)

\* 4.2 re-render policy and 4.3 binding: a new grid for the size replaces
\* the one shown and gets the click handlers
RenderAndBind(list, size) ==
    /\ attached' = addImageClickHandlers(
                       <<InDocument(imagesGridFor(list, size))>>, "openImage")
    /\ given' = <<"openImage">>
    /\ clickOp' = [op |-> "addImageClickHandlers", cell |-> -1, invoked |-> <<>>]

\* 4.4: the root renders, binds and enables the controls only when the
\* request has resolved
MayRender(status) == status = "resolved"

\* 4.4 and 5: the request resolves; the root renders (generateGrid throws
\* RangeError on a list of another length than 8, which ends the sequence),
\* binds the click handlers, then attaches the navigation
FetchResolves(list) ==
    /\ fetch = "pending"
    /\ fetch' = "resolved"
    /\ imageSet' = list
    /\ IF ~LengthOk(list)
       THEN /\ galleryOp' = [op |-> "fetchResolves", error |-> "RangeError",
                             wasOpen |-> presentation.isOpen]
            /\ UNCHANGED <<attached, given, clickOp, modals, modalOp>>
       ELSE /\ RenderAndBind(list, viewport)
            /\ modals' = [modals EXCEPT ![1] =
                             initModal(@, "closeBtnCb", "previousBtnCb", "nextBtnCb")]
            /\ modalOp' = [op |-> "initModal", arg |-> "none", error |-> "none"]
            /\ galleryOp' = [op |-> "fetchResolves", error |-> "none",
                             wasOpen |-> presentation.isOpen]
    /\ UNCHANGED <<viewport, presentation, rerendered>>

\* The failure answered with a built-in image set
FetchFails_fallback ==
    /\ fetch = "pending"
    /\ fetch' = "failed"
    /\ imageSet' = <<"a", "b", "c", "d", "e", "f", "g", "h">>
    /\ RenderAndBind(imageSet', viewport)
    /\ galleryOp' = [op |-> "fetchFails", error |-> "SourceUnavailable",
                     wasOpen |-> presentation.isOpen]
    /\ UNCHANGED <<viewport, presentation, rerendered, modals, modalOp>>

\* 5: the request fails; the core defines no recovery and no fallback set
FetchFails ==
    /\ fetch = "pending"
    /\ fetch' = "failed"
    /\ galleryOp' = [op |-> "fetchFails", error |-> "SourceUnavailable",
                     wasOpen |-> presentation.isOpen]
    /\ UNCHANGED <<imageSet, viewport, presentation, rerendered, attached, given,
                   clickOp, modals, modalOp>>

\* 4.1 and 4.2: the viewport goes to another size class; once the root has
\* rendered, the notification makes it render again
SizeClassChanges(size) ==
    /\ size # viewport
    /\ viewport' = size
    /\ galleryOp' = [op |-> "sizeClassChanges", error |-> "none",
                     wasOpen |-> presentation.isOpen]
    /\ IF MayRender(fetch) /\ LengthOk(imageSet)
       THEN /\ RenderAndBind(imageSet, size)
            /\ rerendered' = TRUE
       ELSE UNCHANGED <<attached, given, clickOp, rerendered>>
    /\ UNCHANGED <<fetch, imageSet, presentation, modals, modalOp>>

\* The user clicks the n-th cell of the grid shown
UserClicksImage(n) ==
    /\ ClickImage(n)
    /\ LET c == RunCallbacks([p |-> presentation, m |-> modals[1]], clickOp'.invoked, 1) IN
       /\ presentation' = c.p
       /\ modals' = [modals EXCEPT ![1] = c.m]
    /\ modalOp' = [op |-> "openPresentationModal", arg |-> "none", error |-> "none"]
    /\ galleryOp' = [op |-> "imageClick", error |-> "none", wasOpen |-> presentation.isOpen]
    /\ UNCHANGED <<fetch, imageSet, viewport, rerendered>>

\* The user activates a control of the overlay: its listeners run in order
UserClicksButton(button) ==
    /\ LET listeners == modals[1][button]
           calls == [k \in 1..Len(listeners) |-> [callback |-> listeners[k], index |-> -1]]
           c == RunCallbacks([p |-> presentation, m |-> modals[1]], calls, 1)
       IN
       /\ presentation' = c.p
       /\ modals' = [modals EXCEPT ![1] = c.m]
    /\ modalOp' = [op |-> button, arg |-> "none", error |-> "none"]
    /\ galleryOp' = [op |-> button, error |-> "none", wasOpen |-> presentation.isOpen]
    /\ UNCHANGED <<fetch, imageSet, viewport, rerendered, attached, given, clickOp>>

\* The page at application start: createModal has run
GalleryModal ==
    /\ modals = <<NewModal>>
    /\ modalOp = [op |-> "createModal", arg |-> "none", error |-> "none"]

---------------------------------------------------------------------------
(* Specifications *)

InitGrid ==
    /\ tables = <<>>
    /\ gridCalls = <<>>

\* Each specification starts the two components it leaves alone in one fixed state
ClassifyIdle == width = 0 /\ sizeName = "none"
WatcherIdle ==
    /\ innerWidth = 500
    /\ resizePending = FALSE
    /\ onresize = Null
    /\ seen = <<>>
    /\ notes = <<>>
    /\ registered = <<>>
    /\ lastOp = NoOp

ModalIdle == InitModal
ClicksIdle == InitClicks
GalleryIdle ==
    /\ fetch = "pending"
    /\ imageSet = <<>>
    /\ viewport = "small"
    /\ presentation = [isOpen |-> FALSE, currentIndex |-> 0]
    /\ rerendered = FALSE
    /\ galleryOp = NoGalleryOp

NextClassify ==
    \/ Classify /\ UNCHANGED <<watcherVars, gridVars, modalVars, clickVars, galleryVars>>
    \/ NextWidth /\ UNCHANGED <<watcherVars, gridVars, modalVars, clickVars, galleryVars>>

NextWatcher ==
    \/ \E callback \in Callbacks \cup NonCallable :
          onSizeClassChange(callback)
            /\ UNCHANGED <<classifyVars, gridVars, modalVars, clickVars, galleryVars>>
    \/ \E w \in Widths :
          SetInnerWidth(w) /\ UNCHANGED <<classifyVars, gridVars, modalVars, clickVars, galleryVars>>
    \/ DispatchResize /\ UNCHANGED <<classifyVars, gridVars, modalVars, clickVars, galleryVars>>

NextGrid ==
    \E imageUrls \in ImageLists, size \in SizeClasses :
        generateGrid(imageUrls, size)
          /\ UNCHANGED <<classifyVars, watcherVars, modalVars, clickVars, galleryVars>>

NextModal ==
    \/ CreateModal /\ UNCHANGED <<classifyVars, watcherVars, gridVars, clickVars, galleryVars>>
    \/ \E c \in ModalInputs, p \in ModalInputs, n \in ModalInputs :
          CallInitModal(c, p, n)
            /\ UNCHANGED <<classifyVars, watcherVars, gridVars, clickVars, galleryVars>>
    \/ CallClosePresentationModal
         /\ UNCHANGED <<classifyVars, watcherVars, gridVars, clickVars, galleryVars>>
    \/ CallOpenPresentationModal
         /\ UNCHANGED <<classifyVars, watcherVars, gridVars, clickVars, galleryVars>>
    \/ \E src \in ModalSrcs :
          CallSetModalImgSrc(src)
            /\ UNCHANGED <<classifyVars, watcherVars, gridVars, clickVars, galleryVars>>

NextClicks ==
    \/ \E imageUrls \in ImageLists, size \in SizeClasses :
          AttachGrid(imageUrls, size)
            /\ UNCHANGED <<classifyVars, watcherVars, gridVars, modalVars, galleryVars>>
    \/ \E callback \in ClickCallbacks :
          CallAddImageClickHandlers(callback)
            /\ UNCHANGED <<classifyVars, watcherVars, gridVars, modalVars, galleryVars>>
    \/ \E n \in 1..GRID_SIZE :
          ClickImage(n) /\ UNCHANGED <<classifyVars, watcherVars, gridVars, modalVars, galleryVars>>

NextGallery ==
    \/ \E list \in ImageLists :
          FetchResolves(list) /\ UNCHANGED <<classifyVars, watcherVars, gridVars>>
    \/ FetchFails /\ UNCHANGED <<classifyVars, watcherVars, gridVars>>
    \/ \E size \in SizeClasses :
          SizeClassChanges(size) /\ UNCHANGED <<classifyVars, watcherVars, gridVars>>
    \/ \E n \in 1..GRID_SIZE :
          UserClicksImage(n) /\ UNCHANGED <<classifyVars, watcherVars, gridVars>>
    \/ \E button \in Buttons :
          UserClicksButton(button) /\ UNCHANGED <<classifyVars, watcherVars, gridVars>>

StartClassify ==
    InitClassify /\ WatcherIdle /\ InitGrid /\ ModalIdle /\ ClicksIdle /\ GalleryIdle
StartWatcher ==
    ClassifyIdle /\ InitWatcher /\ InitGrid /\ ModalIdle /\ ClicksIdle /\ GalleryIdle
StartGrid ==
    ClassifyIdle /\ WatcherIdle /\ InitGrid /\ ModalIdle /\ ClicksIdle /\ GalleryIdle
StartModal ==
    ClassifyIdle /\ WatcherIdle /\ InitGrid /\ InitModal /\ ClicksIdle /\ GalleryIdle
StartClicks ==
    ClassifyIdle /\ WatcherIdle /\ InitGrid /\ ModalIdle /\ InitClicks /\ GalleryIdle
StartGallery ==
    ClassifyIdle /\ WatcherIdle /\ InitGrid /\ GalleryModal /\ InitClicks /\ InitGallery

SpecClassify == StartClassify /\ [][NextClassify]_vars
SpecWatcher  == StartWatcher /\ [][NextWatcher]_vars
SpecGrid     == StartGrid /\ [][NextGrid]_vars
SpecModal    == StartModal /\ [][NextModal]_vars
SpecClicks   == StartClicks /\ [][NextClicks]_vars
SpecGallery  == StartGallery /\ [][NextGallery]_vars

---------------------------------------------------------------------------
(* The claims about the classifier and the watcher *)

\* The bands of the specification, written out independently of the code
Band(w) ==
    CASE w <= 600 -> "small"
      [] w > 600 /\ w <= 800 -> "medium"
      [] w > 800 -> "large"

\* C1: the classifier is total and returns small for every width <= 600,
\* medium for 600 < width <= 800 and large for width > 800; 600 is small
\* and 800 is medium.
C1_ClassifierBands ==
    sizeName # "none" =>
        /\ sizeName \in SizeClasses
        /\ (width <= 600 => sizeName = "small")
        /\ (width > 600 /\ width <= 800 => sizeName = "medium")
        /\ (width > 800 => sizeName = "large")

C1_Witness == width = 800 /\ sizeName = "medium"

\* C2: every registration of a callable callback calls that callback exactly
\* once, within the registration, with the size class of the current
\* viewport width, whatever was registered or resized before.
C2_ImmediateNotification ==
    (lastOp.op = "onSizeClassChange" /\ lastOp.arg \in Callbacks) =>
        /\ lastOp.error = "none"
        /\ lastOp.invoked = <<[callback |-> lastOp.arg, size |-> Band(innerWidth)]>>

C2_Witness ==
    /\ lastOp.op = "onSizeClassChange"
    /\ lastOp.arg = "g"
    /\ registered = <<"f", "g">>
    /\ resizePending
    /\ lastOp.invoked = <<[callback |-> "g", size |-> "large"]>>

Scenario == <<500, 550, 700, 750, 900>>

\* C3: a resize event calls the callback only if the class of the new width
\* differs from the class most recently passed to that callback, and then
\* with the new class; a resize inside one band calls nothing.  Registered at
\* 500 and resized through 550, 700, 750, 900, the watcher makes two change
\* notifications after the initial one: medium (at 700) and large (at 900).
C3_Hysteresis ==
    [][(resizePending /\ ~resizePending' /\ onresize # Null) =>
        /\ IF Band(innerWidth') # Last(notes)
           THEN lastOp'.invoked = <<[callback |-> Last(registered),
                                     size |-> Band(innerWidth')]>>
           ELSE lastOp'.invoked = <<>>
        /\ notes' = notes \o [i \in 1..Len(lastOp'.invoked) |-> lastOp'.invoked[i].size]
        /\ (seen' = Scenario => notes' = <<"small", "medium", "large">>)
      ]_vars

C3_Witness ==
    /\ seen = Scenario
    /\ notes = <<"small", "medium", "large">>
    /\ lastOp.op = "resize"

\* C4: once every resize event has been handled, the class most recently
\* passed to the active callback is the class of the current viewport width.
C4_NoMissedChange ==
    (onresize # Null /\ ~resizePending) => Last(notes) = Band(innerWidth)

C4_Witness ==
    /\ ~resizePending
    /\ lastOp.op = "resize"
    /\ notes = <<"small", "medium", "large", "small">>

\* C5: only the callback registered last is called on a resize event; a
\* callback registered before it is never called again.
C5_LastRegistrationWins ==
    lastOp.op = "resize" =>
        \A i \in 1..Len(lastOp.invoked) :
            /\ lastOp.invoked[i].callback = Last(registered)
            /\ \A j \in 1..(Len(registered) - 1) :
                   lastOp.invoked[i].callback # registered[j]

C5_Witness ==
    /\ registered = <<"f", "g">>
    /\ lastOp.op = "resize"
    /\ lastOp.invoked = <<[callback |-> "g", size |-> "medium"]>>

\* C6: a registration with a non-callable argument fails with an error and
\* changes nothing: no callback is called, and the installed listener, its
\* remembered size class and the registration order stay as they were.
C6_RejectedRegistration ==
    [][(lastOp'.op = "onSizeClassChange" /\ lastOp'.arg \notin Callbacks) =>
        /\ lastOp'.error = "TypeError"
        /\ lastOp'.invoked = <<>>
        /\ UNCHANGED <<innerWidth, resizePending, onresize, seen, notes, registered>>
      ]_vars

C6_Witness ==
    /\ lastOp.error = "TypeError"
    /\ onresize = [callback |-> "f", currentViewportSize |-> "medium"]
    /\ notes = <<"small", "medium">>

---------------------------------------------------------------------------
(* The claims about the grid renderer *)

Abc8 == <<"a", "b", "c", "d", "e", "f", "g", "h">>

Returned(k) == gridCalls[k].error = "none"

\* The cells of a grid read row by row
RECURSIVE RowMajor(_)
RowMajor(rows) ==
    IF rows = <<>> THEN <<>> ELSE Head(rows) \o RowMajor(Tail(rows))

\* C7: generateGrid with a list of length other than 8 fails with a
\* RangeError whatever the size class, and creates and returns no grid: the
\* only tables that exist come from the calls with 8 URLs.
C7_WrongLengthRejected ==
    /\ \A k \in 1..Len(gridCalls) :
          Len(gridCalls[k].imageUrls) # 8 =>
              /\ gridCalls[k].error = "RangeError"
              /\ gridCalls[k].ret = 0
    /\ Len(tables) = Cardinality({k \in 1..Len(gridCalls) : Len(gridCalls[k].imageUrls) = 8})

C7_Witness ==
    /\ Len(gridCalls) = 3
    /\ Len(gridCalls[1].imageUrls) = 7 /\ gridCalls[1].size = "small"
    /\ Len(gridCalls[2].imageUrls) = 9 /\ gridCalls[2].size = "medium"
    /\ Len(gridCalls[3].imageUrls) = 9 /\ gridCalls[3].size = "large"
    /\ \A k \in 1..3 : gridCalls[k].error = "RangeError"
    /\ tables = <<>>

\* C8: the shape of a grid depends only on the size class and has 8 cells:
\* small is 8 rows of 1 column, medium 4 rows of 2, large 2 rows of 4.
C8_GridShape ==
    \A k \in 1..Len(gridCalls) :
        Returned(k) =>
            LET rows == tables[gridCalls[k].ret].rows
                nRows == CASE gridCalls[k].size = "small" -> 8
                           [] gridCalls[k].size = "medium" -> 4
                           [] gridCalls[k].size = "large" -> 2
                nCols == CASE gridCalls[k].size = "small" -> 1
                           [] gridCalls[k].size = "medium" -> 2
                           [] gridCalls[k].size = "large" -> 4
            IN /\ Len(rows) = nRows
               /\ \A r \in 1..Len(rows) : Len(rows[r]) = nCols
               /\ Len(RowMajor(rows)) = 8

C8_Witness ==
    /\ Len(gridCalls) = 3
    /\ \A k \in 1..3 : Returned(k)
    /\ gridCalls[1].size = "small" /\ Len(tables[gridCalls[1].ret].rows) = 8
    /\ gridCalls[2].size = "medium" /\ Len(tables[gridCalls[2].ret].rows) = 4
    /\ gridCalls[3].size = "large" /\ Len(tables[gridCalls[3].ret].rows) = 2
    /\ gridCalls[1].imageUrls # gridCalls[2].imageUrls

\* C9: for every list of 8 URLs and every size class the i-th cell in
\* row-major order holds imageUrls[i], so the cells read row by row are the
\* list in its order, each position used once.
C9_RowMajorBinding ==
    \A k \in 1..Len(gridCalls) :
        Returned(k) => RowMajor(tables[gridCalls[k].ret].rows) = gridCalls[k].imageUrls

C9_Witness ==
    /\ Len(gridCalls) >= 1
    /\ gridCalls[1].imageUrls = Abc8
    /\ gridCalls[1].size = "large"
    /\ Returned(1)
    /\ tables[gridCalls[1].ret].rows = << <<"a", "b", "c", "d">>, <<"e", "f", "g", "h">> >>

\* C10: two calls with the same list and size class return distinct table
\* elements with the same structure, whatever calls were made before or
\* between them.
C10_NoMemoryBetweenCalls ==
    \A j, k \in 1..Len(gridCalls) :
        (/\ j < k
         /\ Returned(j) /\ Returned(k)
         /\ gridCalls[j].imageUrls = gridCalls[k].imageUrls
         /\ gridCalls[j].size = gridCalls[k].size) =>
            /\ gridCalls[j].ret # gridCalls[k].ret
            /\ tables[gridCalls[j].ret] = tables[gridCalls[k].ret]

C10_Witness ==
    /\ Len(gridCalls) = 3
    /\ \A k \in 1..3 : Returned(k)
    /\ gridCalls[1].imageUrls = Abc8 /\ gridCalls[1].size = "large"
    /\ gridCalls[2].imageUrls # Abc8 /\ gridCalls[2].size = "small"
    /\ gridCalls[3].imageUrls = Abc8 /\ gridCalls[3].size = "large"
    /\ gridCalls[1].ret # gridCalls[3].ret
    /\ tables[gridCalls[1].ret] = tables[gridCalls[3].ret]

---------------------------------------------------------------------------
(* The claims about the presentation modal *)

\* C16: a modal is hidden when createModal has built it and becomes visible
\* only by openPresentationModal, which shows the first one; no other
\* operation makes a hidden modal visible.
C16_HiddenUntilOpened ==
    [][\A m \in 1..Len(modals') :
          modals'[m].display = "block" =>
              \/ m = 1 /\ modalOp'.op = "openPresentationModal"
              \/ m <= Len(modals) /\ modals[m].display = "block"
      ]_vars

C16_Witness ==
    /\ Len(modals) = 2
    /\ modalOp.op = "setModalImgSrc"
    /\ modals[1].src = "a"
    /\ modals[1].closeButton # <<>>
    /\ \A m \in 1..2 : modals[m].display = "none"

\* C18: closePresentationModal and openPresentationModal change the display
\* of the modal and nothing else (the image src stays), setModalImgSrc
\* changes the src and nothing else, and closing a hidden modal or opening
\* a visible one changes nothing.
C18_DisjointEffects ==
    [][(modals # <<>> /\ modalOp'.error = "none") =>
        /\ modalOp'.op = "closePresentationModal" =>
              /\ modals' = [modals EXCEPT ![1].display = "none"]
              /\ modals[1].display = "none" => modals' = modals
        /\ modalOp'.op = "openPresentationModal" =>
              /\ modals' = [modals EXCEPT ![1].display = "block"]
              /\ modals[1].display = "block" => modals' = modals
        /\ modalOp'.op = "setModalImgSrc" =>
              modals' = [modals EXCEPT ![1].src = modalOp'.arg]
      ]_vars

C18_Witness ==
    /\ modals # <<>>
    /\ modalOp.op = "closePresentationModal"
    /\ modals[1].display = "none"
    /\ modals[1].src = "b"

---------------------------------------------------------------------------
(* The claims about the click handlers *)

\* C11: after addImageClickHandlers(callback) on the grid shown, a click on
\* the cell at row-major position i (0..7) calls callback with exactly i,
\* whatever the size class of the grid.
C11_ClickDeliversIndex ==
    clickOp.op = "click" =>
        /\ clickOp.cell \in 0..7
        /\ given # <<>> => clickOp.invoked # <<>>
        /\ \A j \in 1..Len(clickOp.invoked) :
              /\ clickOp.invoked[j].index = clickOp.cell
              /\ clickOp.invoked[j].callback \in ClickCallbacks

C11_Witness ==
    /\ clickOp.op = "click"
    /\ clickOp.cell = 7
    /\ Len(attached[1].rows) = 2
    /\ attached[1].rows[2][4] = "h"
    /\ clickOp.invoked = <<[callback |-> "openImage", index |-> 7]>>

\* C19: registration is additive: after k calls of addImageClickHandlers on
\* the grid shown, one click on cell i makes k calls, each with index i, to
\* the callbacks in the order they were given; none is replaced or removed.
C19_AdditiveRegistration ==
    clickOp.op = "click" =>
        clickOp.invoked =
            [j \in 1..Len(given) |-> [callback |-> given[j], index |-> clickOp.cell]]

C19_Witness ==
    /\ clickOp.op = "click"
    /\ clickOp.cell = 3
    /\ given = <<"openImage", "openImage", "logIndex">>
    /\ Len(clickOp.invoked) = 3

---------------------------------------------------------------------------
(* The claims about the page *)

\* C12: after the grid has been replaced by a newly generated one on a
\* size-class change, a click on cell i of the grid shown still delivers
\* index i: the click callback is called once with i and opens image i.
C12_BindingSurvivesRerender ==
    (galleryOp.op = "imageClick" /\ rerendered) =>
        /\ clickOp.invoked = <<[callback |-> "openImage", index |-> clickOp.cell]>>
        /\ presentation = [isOpen |-> TRUE, currentIndex |-> clickOp.cell]

C12_Witness ==
    /\ rerendered
    /\ galleryOp.op = "imageClick"
    /\ clickOp.cell = 5
    /\ Len(attached[1].rows) = 4
    /\ presentation = [isOpen |-> TRUE, currentIndex |-> 5]

\* C13: from Open(i), previous gives Open(i - 1), and Open(7) for i = 0;
\* next gives Open(i + 1), and Open(0) for i = 7; currentIndex stays in
\* 0..7 whatever events occur.
C13_Wraparound ==
    [][LET i == presentation.currentIndex IN
       /\ (galleryOp'.op = "previousButton" /\ presentation.isOpen) =>
             presentation' = [isOpen |-> TRUE,
                              currentIndex |-> IF i = 0 THEN 7 ELSE i - 1]
       /\ (galleryOp'.op = "nextButton" /\ presentation.isOpen) =>
             presentation' = [isOpen |-> TRUE,
                              currentIndex |-> IF i = 7 THEN 0 ELSE i + 1]
       /\ presentation'.currentIndex \in 0..7
      ]_vars

C13_Witness ==
    /\ galleryOp.op = "previousButton"
    /\ galleryOp.wasOpen
    /\ presentation = [isOpen |-> TRUE, currentIndex |-> 7]
    /\ modals[1].src = imageSet[8]

\* C14: close, previous or next while the presentation is Closed changes
\* neither isOpen nor currentIndex, leaves the overlay hidden and raises
\* no error.
C14_NoOpWhileClosed ==
    [][(galleryOp'.op \in Buttons /\ ~presentation.isOpen) =>
        /\ presentation' = presentation
        /\ modals'[1].display = "none"
        /\ modals' = modals
        /\ galleryOp'.error = "none"
      ]_vars

C14_Witness ==
    /\ galleryOp.op = "nextButton"
    /\ ~galleryOp.wasOpen
    /\ modals[1].nextButton # <<>>
    /\ presentation = [isOpen |-> FALSE, currentIndex |-> 6]
    /\ modals[1].display = "none"

\* C15: whenever the overlay is visible the presentation is Open and the
\* image displayed is imageUrls[currentIndex].
C15_VisibleImageIsCurrent ==
    modals[1].display = "block" =>
        /\ presentation.isOpen
        /\ modals[1].src = imageSet[presentation.currentIndex + 1]

C15_Witness ==
    /\ modals[1].display = "block"
    /\ galleryOp.op = "nextButton"
    /\ presentation.currentIndex = 6
    /\ modals[1].src = "g"

\* C17: until the image-list request has resolved no grid is in the
\* document, no control of the overlay has a listener and no image set is
\* in use; after a failed request this stays so.
C17_NothingBeforeFetch ==
    fetch # "resolved" =>
        /\ attached = <<>>
        /\ imageSet = <<>>
        /\ \A b \in Buttons : modals[1][b] = <<>>
        /\ ~presentation.isOpen
        /\ modals[1].display = "none"

C17_Witness ==
    /\ fetch = "failed"
    /\ galleryOp.op = "sizeClassChanges"
    /\ attached = <<>>

=============================================================================
